---------------------------- MODULE Spec2Model ----------------------------
(***************************************************************************)
(* DataOps Copilot front end: the dashboard page (Dashboard), the upload   *)
(* widget (FileUpload), the results widget (ProfileResults) and the API    *)
(* client (uploadAndProfile).                                              *)
(*                                                                         *)
(* JavaScript values are tagged records, so that undefined, null, numbers, *)
(* strings and objects can be compared with one another.  Numbers are held *)
(* in eighths (the integer k stands for k/8): every such value is exact as *)
(* an IEEE double, so toFixed rounds them exactly as written here.         *)
(***************************************************************************)
EXTENDS Integers, Sequences, FiniteSets, TLC

VARIABLES
    profileResult,  \* Dashboard: useState<ProfileResponse | null>
    mutation,       \* Dashboard: what useMutation's observer reports
    inflight,       \* POST requests sent and not yet answered, oldest first
    shown,          \* which widget the Dashboard's last render mounted
    selectedFile,   \* FileUpload: useState<File | null>
    useLLM,         \* FileUpload: useState(true)
    isDragging,     \* FileUpload: useState(false)
    fileInfo,       \* FileUpload: the file box it rendered, undefined if none
    report,         \* ProfileResults: what it rendered, undefined when not shown
    lastEvent       \* the event handled last, with the FileList it carried
                    \* (observation only: no handler reads it)

vars == <<profileResult, mutation, inflight, shown,
          selectedFile, useLLM, isDragging, fileInfo, report, lastEvent>>

\* ------------------------------------------------------------- bounds

MaxFiles == 2      \* longest FileList a drop or a pick delivers
MaxColumns == 1    \* most columns in a response body
MaxIssues == 2     \* most quality issues in a response body
SizeWindow == 2    \* byte counts taken on either side of each sampled size

\* ---------------------------------------------------------- JS values

Undefined == [tag |-> "undefined"]
Null == [tag |-> "null"]
Num(k) == [tag |-> "number", eighths |-> k]
Str(s) == [tag |-> "string", val |-> s]
Bool(b) == [tag |-> "boolean", val |-> b]

\* JavaScript truthiness, as `!x`, `x && ...` and `if (x)` use it.
Truthy(v) ==
    CASE v.tag = "undefined" -> FALSE
      [] v.tag = "null" -> FALSE
      [] v.tag = "number" -> v.eighths # 0
      [] v.tag = "string" -> v.val # ""
      [] v.tag = "boolean" -> v.val
      [] OTHER -> TRUE

\* Boolean.prototype.toString
BoolToString(b) == IF b THEN "true" ELSE "false"

\* ------------------------------------------------------------- inputs

Files ==
    { [tag |-> "File", name |-> "sales.csv", size |-> 0],
      [tag |-> "File", name |-> "orders.json", size |-> 1536],
      [tag |-> "File", name |-> "events.parquet", size |-> 1572864] }

\* The byte counts formatFileSize is applied to under FormatSpec: the
\* neighbourhoods of 0, of the two unit thresholds, of exact rounding ties
\* (1.25 KB, 1.25 MB) and of sizes up to the advertised 100 MB.
SizeCentres ==
    {0, 512, 1024, 1075, 1280, 1536, 10240, 1047552, 1048525, 1048576,
     1310720, 1572864, 104857600}

SampleSizes ==
    { c + d : c \in SizeCentres, d \in (0 - SizeWindow)..SizeWindow } \cap Nat

SizedFiles == { [tag |-> "File", name |-> "sales.csv", size |-> b] : b \in SampleSizes }

SeqsUpTo(S, n) == UNION { [1..k -> S] : k \in 0..n }

\* A FileList: dataTransfer.files of a drop, target.files of the picker.
FileLists == { [tag |-> "FileList", items |-> fs] : fs \in SeqsUpTo(Files, MaxFiles) }

\* What the API client throws: axios' messages for a network failure and
\* for a non-2xx status.
Errors ==
    { [tag |-> "Error", message |-> Str("Network Error")],
      [tag |-> "Error", message |-> Str("Request failed with status code 500")] }


\* ColumnAnalysis documents: mean and avg_length each absent, null or a
\* number (0, 2.625, -0.125; 1.5, 7.5).
Columns ==
    { [name |-> "amount", dtype |-> "float64", mean |-> m, avg_length |-> a] :
        m \in {Undefined, Null, Num(0), Num(21), Num(-1)},
        a \in {Undefined, Null, Num(12), Num(60)} }

Severities == {"high", "medium", "low", "critical", "HIGH"}

\* QualityIssue documents
Issues ==
    { [severity |-> sv,
       type |-> "quality",
       description |-> "issue of severity " \o sv,
       recommendation |-> "review"] : sv \in Severities }

\* LLMInsights documents, and llm_insights absent or null
Insights ==
    {Undefined, Null}
    \cup { [tag |-> "object", insights |-> "Looks clean.", model_used |-> mu, tokens_used |-> tu] :
             mu \in {Undefined, Str(""), Str("claude-x")},
             tu \in {Undefined, Num(8 * 1234)} }

\* ProfileResponse documents for a file of that name.
ProfileResponses(fileName, columnLists, issueLists, successes) ==
    { [tag |-> "object",
       file_name |-> fileName,
       columns |-> cs,
       quality_issues |-> qs,
       llm_insights |-> li,
       success |-> ok] :
        cs \in columnLists, qs \in issueLists, li \in Insights, ok \in successes }

\* The documents ProfileResults is rendered from under RenderSpec: every
\* list of columns with no issue, and every list of issues with no column,
\* each with every llm_insights.
RenderedResponses ==
    ProfileResponses("sales.csv", SeqsUpTo(Columns, MaxColumns), {<< >>}, {TRUE})
    \cup ProfileResponses("sales.csv", {<< >>}, SeqsUpTo(Issues, MaxIssues), {TRUE})

\* --------------------------------------------------------- API client

\* uploadAndProfile builds the multipart body and issues one POST; the value
\* is the request put on the wire.  FormData keeps the append order.
\* Variant: the description field is appended whenever the argument is given,
\* the empty string included.
uploadAndProfileAnyDescription(file, llm, description) ==
    LET useLLMArg == IF llm = Undefined THEN Bool(TRUE) ELSE llm
        formData ==
            << <<"file", file>>, <<"use_llm", Str(BoolToString(useLLMArg.val))>> >>
            \o (IF description # Undefined
                THEN << <<"description", description>> >>
                ELSE << >>)
    IN  [method |-> "POST", url |-> "/data/upload", data |-> formData]

uploadAndProfile(file, llm, description) ==
    LET useLLMArg == IF llm = Undefined THEN Bool(TRUE) ELSE llm  \* useLLM = true
        formData ==
            << <<"file", file>>, <<"use_llm", Str(BoolToString(useLLMArg.val))>> >>
            \o (IF Truthy(description)
                THEN << <<"description", description>> >>
                ELSE << >>)
    IN  [method |-> "POST", url |-> "/data/upload", data |-> formData]

\* FormData.get: the value of the first field of that name, else null.
FormGet(formData, name) ==
    IF \E i \in 1..Len(formData) : formData[i][1] = name
    THEN LET i == CHOOSE j \in 1..Len(formData) :
                      /\ formData[j][1] = name
                      /\ \A k \in 1..(j - 1) : formData[k][1] # name
         IN  formData[i][2]
    ELSE Null

\* The bodies the server may answer a request with on a 2xx status.  The
\* dashboard reads none of a body's fields, so the lists are kept empty here
\* and llm_insights is null or complete; RenderSpec ranges over the rest.
UploadResponses(request) ==
    { body \in ProfileResponses(FormGet(request.data, "file").name,
                                {<< >>}, {<< >>}, BOOLEAN) :
        \/ body.llm_insights = Null
        \/ /\ Truthy(body.llm_insights)
           /\ Truthy(body.llm_insights.model_used)
           /\ body.llm_insights.tokens_used # Undefined }

\* What the transport can hand back for a request: a response with a status
\* and a body, or no response at all (no connection).
Outcomes(request) ==
    { [tag |-> "response", status |-> 200, data |-> body] :
        body \in UploadResponses(request) }
    \cup { [tag |-> "response", status |-> 500, data |-> Str("Internal Server Error")],
           [tag |-> "failure"] }

\* api.post resolves on a status the client accepts (2xx, none other being
\* configured) and rejects otherwise.
Resolves(outcome) ==
    /\ outcome.tag = "response"
    /\ outcome.status >= 200
    /\ outcome.status < 300

Rejects(outcome) == outcome.tag \in {"response", "failure"} /\ ~Resolves(outcome)

\* The error api.post rejects with.
AxiosError(outcome) ==
    IF outcome.tag = "failure"
    THEN [tag |-> "Error", message |-> Str("Network Error")]
    ELSE [tag |-> "Error",
          message |-> Str("Request failed with status code " \o ToString(outcome.status))]

\* --------------------------------------------- ProfileResults (widget)

RECURSIVE Pow10(_)
Pow10(f) == IF f = 0 THEN 1 ELSE 10 * Pow10(f - 1)

\* The last f decimal digits of m, with leading zeros.
RECURSIVE PadDigits(_, _)
PadDigits(m, f) ==
    IF f = 0 THEN "" ELSE PadDigits(m \div 10, f - 1) \o ToString(m % 10)

\* Number.prototype.toFixed(f) of num/den, den a power of two (so the double
\* is exact): the integer n nearest to x * 10^f, the larger one on a tie,
\* written with f decimals; a negative x is formatted as "-" and -x.
ToFixed(num, den, f) ==
    LET a == IF num < 0 THEN 0 - num ELSE num
        n == (2 * a * Pow10(f) + den) \div (2 * den)
        digits == IF f = 0
                  THEN ToString(n)
                  ELSE ToString(n \div Pow10(f)) \o "." \o PadDigits(n % Pow10(f), f)
    IN  IF num < 0 THEN "-" \o digits ELSE digits

\* Number.prototype.toLocaleString() of a non-negative integer (en-US):
\* digits in groups of three.
RECURSIVE ToLocaleString(_)
ToLocaleString(n) ==
    IF n < 1000
    THEN ToString(n)
    ELSE ToLocaleString(n \div 1000) \o "," \o PadDigits(n % 1000, 3)

\* String.prototype.toUpperCase, on the severity strings of the model.
ToUpperCase(s) ==
    CASE s = "high" -> "HIGH"
      [] s = "medium" -> "MEDIUM"
      [] s = "low" -> "LOW"
      [] s = "critical" -> "CRITICAL"
      [] s = "HIGH" -> "HIGH"

\* Variant: the severity is matched whatever its letter case.
getSeverityColorIgnoresCase(severity) ==
    CASE ToUpperCase(severity) = "HIGH" -> "bg-red-100 text-red-800 border-red-200"
      [] ToUpperCase(severity) = "MEDIUM" -> "bg-yellow-100 text-yellow-800 border-yellow-200"
      [] ToUpperCase(severity) = "LOW" -> "bg-blue-100 text-blue-800 border-blue-200"
      [] OTHER -> "bg-gray-100 text-gray-800 border-gray-200"

getSeverityColor(severity) ==
    CASE severity = "high" -> "bg-red-100 text-red-800 border-red-200"
      [] severity = "medium" -> "bg-yellow-100 text-yellow-800 border-yellow-200"
      [] severity = "low" -> "bg-blue-100 text-blue-800 border-blue-200"
      [] OTHER -> "bg-gray-100 text-gray-800 border-gray-200"

\* One card of the quality-issues panel.
IssueCard(issue) ==
    [className |-> getSeverityColor(issue.severity),
     description |-> issue.description,
     recommendation |-> issue.recommendation,
     badge |-> ToUpperCase(issue.severity)]

\* Variant: the issues of severity high are listed before the others.
QualityIssuesPanelHighFirst(quality_issues) ==
    LET IsHigh(issue) == issue.severity = "high"
        IsOther(issue) == issue.severity # "high"
        sorted == SelectSeq(quality_issues, IsHigh) \o SelectSeq(quality_issues, IsOther)
    IN  IF Len(sorted) > 0
        THEN [present |-> TRUE,
              count |-> Len(sorted),
              cards |-> [i \in 1..Len(sorted) |-> IssueCard(sorted[i])]]
        ELSE [present |-> FALSE]

\* {quality_issues.length > 0 && (... quality_issues.map(...) ...)}
QualityIssuesPanel(quality_issues) ==
    IF Len(quality_issues) > 0
    THEN [present |-> TRUE,
          count |-> Len(quality_issues),
          cards |-> [i \in 1..Len(quality_issues) |-> IssueCard(quality_issues[i])]]
    ELSE [present |-> FALSE]

\* Variant: the two values are tested for truthiness, which hides a zero.
StatsCellTruthy(col) ==
    (IF Truthy(col.mean)
     THEN << "μ: " \o ToFixed(col.mean.eighths, 8, 2) >>
     ELSE << >>)
    \o (IF Truthy(col.avg_length)
        THEN << "avg len: " \o ToFixed(col.avg_length.eighths, 8, 0) >>
        ELSE << >>)

\* The spans of a column's stats cell, in document order.
StatsCell(col) ==
    (IF col.mean # Undefined /\ col.mean # Null
     THEN << "μ: " \o ToFixed(col.mean.eighths, 8, 2) >>
     ELSE << >>)
    \o (IF col.avg_length # Undefined /\ col.avg_length # Null
        THEN << "avg len: " \o ToFixed(col.avg_length.eighths, 8, 0) >>
        ELSE << >>)

\* One row of the column-analysis table.
ColumnRow(col) == [name |-> col.name, dtype |-> col.dtype, stats |-> StatsCell(col)]

\* The "Powered by <model> . <tokens> tokens" line.
ModelLine(llm_insights) ==
    IF Truthy(llm_insights.model_used)
    THEN [present |-> TRUE,
          model |-> llm_insights.model_used.val,
          tokens |-> IF llm_insights.tokens_used = Undefined
                        \/ llm_insights.tokens_used = Null
                     THEN ""
                     ELSE ToLocaleString(llm_insights.tokens_used.eighths \div 8)]
    ELSE [present |-> FALSE]

\* Variant: the panel is rendered only for insights that name their model.
InsightsPanelNeedsModel(llm_insights) ==
    IF Truthy(llm_insights) /\ Truthy(llm_insights.model_used)
    THEN [present |-> TRUE,
          modelLine |-> ModelLine(llm_insights),
          text |-> llm_insights.insights]
    ELSE [present |-> FALSE]

\* {llm_insights && (...)}
InsightsPanel(llm_insights) ==
    IF Truthy(llm_insights)
    THEN [present |-> TRUE,
          modelLine |-> ModelLine(llm_insights),
          text |-> llm_insights.insights]
    ELSE [present |-> FALSE]

\* What ProfileResults renders from its result prop.
ProfileResultsRender(result) ==
    [tag |-> "report",
     file_name |-> result.file_name,
     resetButton |-> [present |-> TRUE, disabled |-> FALSE],
     qualityIssues |-> QualityIssuesPanel(result.quality_issues),
     columns |-> [i \in 1..Len(result.columns) |-> ColumnRow(result.columns[i])],
     insights |-> InsightsPanel(result.llm_insights),
     footer |-> "Analysis Complete"]

\* ----------------------------------------------- Dashboard (container)

\* The observer's state before any mutate and after reset.
IdleMutation == [status |-> "idle", error |-> Null, data |-> Undefined]

isPending == mutation.status = "pending"

\* The observer follows the mutation started last; an earlier one, if any,
\* keeps running but is no longer reported.
Unobserve(reqs) == [i \in 1..Len(reqs) |-> [reqs[i] EXCEPT !.observed = FALSE]]

\* mutationFn of useMutation: ({file, useLLM}) => uploadAndProfile(file, useLLM)
mutationFn(variables) ==
    uploadAndProfile(variables.file, Bool(variables.useLLM), Undefined)

\* Variant: starting a mutation keeps the error of the one before.
mutateKeepsError(variables) ==
    /\ inflight' = Append(Unobserve(inflight),
                          [request |-> mutationFn(variables), observed |-> TRUE,
                           response |-> Undefined])
    /\ mutation' = [status |-> "pending", error |-> mutation.error, data |-> Undefined]

\* uploadMutation.mutate: start a mutation, which calls mutationFn at once.
mutate(variables) ==
    /\ inflight' = Append(Unobserve(inflight),
                          [request |-> mutationFn(variables), observed |-> TRUE,
                           response |-> Undefined])
    /\ mutation' = [status |-> "pending", error |-> Null, data |-> Undefined]

\* uploadMutation.reset: back to idle, letting go of the current mutation.
mutationReset ==
    /\ inflight' = Unobserve(inflight)
    /\ mutation' = IdleMutation

\* Variant: a body whose success field is false is not shown as a result.
DashboardRenderChecksSuccess(result) ==
    IF ~Truthy(result) \/ ~result.success THEN "FileUpload" ELSE "ProfileResults"

\* {!profileResult ? <FileUpload .../> : <ProfileResults .../>}
DashboardRender(result) ==
    IF ~Truthy(result) THEN "FileUpload" ELSE "ProfileResults"

\* FileUpload's three useState initial values.
FileUploadInitialState ==
    [selectedFile |-> Null, useLLM |-> TRUE, isDragging |-> FALSE]

\* Variant: a file of exactly 1024 bytes (or exactly 1 MB) stays in the
\* smaller unit.
formatFileSizeInclusive(bytes) ==
    IF bytes <= 1024
    THEN ToString(bytes) \o " B"
    ELSE IF bytes <= 1024 * 1024
         THEN ToFixed(bytes, 1024, 1) \o " KB"
         ELSE ToFixed(bytes, 1024 * 1024, 1) \o " MB"

\* formatFileSize of FileUpload
formatFileSize(bytes) ==
    IF bytes < 1024
    THEN ToString(bytes) \o " B"
    ELSE IF bytes < 1024 * 1024
         THEN ToFixed(bytes, 1024, 1) \o " KB"
         ELSE ToFixed(bytes, 1024 * 1024, 1) \o " MB"

\* The box FileUpload renders for the selected file: its name and its size.
FileInfoBox(file) ==
    IF Truthy(file)
    THEN [tag |-> "fileInfo", name |-> file.name, size |-> formatFileSize(file.size)]
    ELSE Undefined

\* Variant: FileUpload is hidden, not unmounted, while a result is shown, so
\* its state outlives the result.
CommitKeepsFileUploadMounted(sf, llm, drag) ==
    LET next == DashboardRender(profileResult')
    IN  /\ shown' = next
        /\ report' = IF next = "ProfileResults"
                     THEN ProfileResultsRender(profileResult')
                     ELSE Undefined
        /\ selectedFile' = sf
        /\ useLLM' = llm
        /\ isDragging' = drag
        /\ fileInfo' = IF next = "FileUpload" THEN FileInfoBox(sf) ELSE Undefined

\* The render that follows a handler: the Dashboard mounts the widget
\* chosen by the new profileResult.  A FileUpload that stays mounted keeps the
\* state its handler set (sf, llm, drag); one that is mounted anew starts
\* from its initial state; no FileUpload state exists while ProfileResults is
\* shown (the variables then hold the initial values).
Commit(sf, llm, drag) ==
    LET next == DashboardRender(profileResult')
        w == IF next = "FileUpload" /\ shown = "FileUpload"
             THEN [selectedFile |-> sf, useLLM |-> llm, isDragging |-> drag]
             ELSE FileUploadInitialState
    IN  /\ shown' = next
        /\ report' = IF next = "ProfileResults"
                     THEN ProfileResultsRender(profileResult')
                     ELSE Undefined
        /\ selectedFile' = w.selectedFile
        /\ useLLM' = w.useLLM
        /\ isDragging' = w.isDragging
        /\ fileInfo' = IF next = "FileUpload"
                       THEN FileInfoBox(w.selectedFile)
                       ELSE Undefined

\* handleFileUpload, the onUpload prop of FileUpload
handleFileUpload(file, llm) ==
    /\ profileResult' = Null
    /\ mutate([file |-> file, useLLM |-> llm])

\* handleReset, the onReset prop of ProfileResults
handleReset ==
    /\ profileResult' = Null
    /\ mutationReset

\* The props the Dashboard hands to FileUpload.
isLoading == isPending
\* error={uploadMutation.error?.message}
errorProp == IF mutation.error = Null THEN Undefined ELSE mutation.error.message

\* ------------------------------------------------ FileUpload (widget)

handleDragOver ==
    /\ UNCHANGED <<profileResult, mutation, inflight>>
    /\ Commit(selectedFile, useLLM, TRUE)

handleDragLeave ==
    /\ UNCHANGED <<profileResult, mutation, inflight>>
    /\ Commit(selectedFile, useLLM, FALSE)

\* Variant: the last file of the list is taken.
handleDropTakesLast(files) ==
    /\ UNCHANGED <<profileResult, mutation, inflight>>
    /\ Commit(IF Len(files.items) > 0
              THEN files.items[Len(files.items)]
              ELSE selectedFile,
              useLLM, FALSE)

\* Variant: a dropped file is uploaded at once, without Analyze.
handleDropAutoUploads(files) ==
    IF Len(files.items) > 0
    THEN /\ handleFileUpload(files.items[1], useLLM)
         /\ Commit(files.items[1], useLLM, FALSE)
    ELSE /\ UNCHANGED <<profileResult, mutation, inflight>>
         /\ Commit(selectedFile, useLLM, FALSE)

handleDrop(files) ==
    /\ UNCHANGED <<profileResult, mutation, inflight>>
    /\ Commit(IF Len(files.items) > 0 THEN files.items[1] ELSE selectedFile,
              useLLM, FALSE)

\* files is null or a FileList
handleFileSelect(files) ==
    /\ UNCHANGED <<profileResult, mutation, inflight>>
    /\ Commit(IF Truthy(files) /\ Len(files.items) > 0
              THEN files.items[1]
              ELSE selectedFile,
              useLLM, isDragging)

\* Variant: the callback is given the default flag, not the checkbox's.
handleUploadDefaultFlag ==
    IF Truthy(selectedFile)
    THEN /\ handleFileUpload(selectedFile, TRUE)
         /\ Commit(selectedFile, useLLM, isDragging)
    ELSE UNCHANGED <<profileResult, mutation, inflight, shown,
                     selectedFile, useLLM, isDragging, fileInfo, report>>

handleUpload ==
    IF Truthy(selectedFile)
    THEN /\ handleFileUpload(selectedFile, useLLM)
         /\ Commit(selectedFile, useLLM, isDragging)
    ELSE UNCHANGED <<profileResult, mutation, inflight, shown,
                     selectedFile, useLLM, isDragging, fileInfo, report>>

\* Variant: the request in flight reads the flag when it is sent on, so a
\* toggle reaches it.
handleToggleReachesRequest(checked) ==
    /\ UNCHANGED <<profileResult, mutation>>
    /\ inflight' = [i \in 1..Len(inflight) |->
                      [inflight[i] EXCEPT !.request =
                          uploadAndProfile(FormGet(inflight[i].request.data, "file"),
                                           Bool(checked), Undefined)]]
    /\ Commit(selectedFile, checked, isDragging)

\* onChange of the checkbox: setUseLLM(e.target.checked)
handleToggle(checked) ==
    /\ UNCHANGED <<profileResult, mutation, inflight>>
    /\ Commit(selectedFile, checked, isDragging)

\* Variant: Cancel puts the whole widget back to its initial state.
handleCancelClearsAll ==
    /\ UNCHANGED <<profileResult, mutation, inflight>>
    /\ Commit(Null, TRUE, FALSE)

\* onClick of Cancel: setSelectedFile(null)
handleCancel ==
    /\ UNCHANGED <<profileResult, mutation, inflight>>
    /\ Commit(Null, useLLM, isDragging)

\* What FileUpload's render puts on the page.
\* Variant: an Analyze button that is not disabled while loading.
AnalyzeButtonIgnoresLoading == [present |-> Truthy(selectedFile), disabled |-> FALSE]
SelectFileButton == [present |-> ~Truthy(selectedFile), disabled |-> isLoading]
AnalyzeButton == [present |-> Truthy(selectedFile), disabled |-> isLoading]
CancelButton == [present |-> Truthy(selectedFile), disabled |-> isLoading]
Checkbox == [present |-> Truthy(selectedFile), checked |-> useLLM]
\* {error && (<div> ... {error} ... </div>)}
ErrorBlock ==
    IF Truthy(errorProp)
    THEN [present |-> TRUE, text |-> errorProp.val]
    ELSE [present |-> FALSE]

Clickable(button) == button.present /\ ~button.disabled

\* ------------------------------------------------------------- events

Event(name) == [name |-> name]
EventWith(name, files) == [name |-> name, files |-> files]

Init ==
    /\ profileResult = Null
    /\ mutation = IdleMutation
    /\ inflight = << >>
    /\ shown = DashboardRender(Null)
    /\ selectedFile = FileUploadInitialState.selectedFile
    /\ useLLM = FileUploadInitialState.useLLM
    /\ isDragging = FileUploadInitialState.isDragging
    /\ fileInfo = FileInfoBox(FileUploadInitialState.selectedFile)
    /\ report = Undefined
    /\ lastEvent = Event("load")

\* The drop zone's three handlers are attached whenever FileUpload is shown.
DragOver ==
    /\ shown = "FileUpload"
    /\ handleDragOver
    /\ lastEvent' = Event("dragover")

DragLeave ==
    /\ shown = "FileUpload"
    /\ handleDragLeave
    /\ lastEvent' = Event("dragleave")

Drop ==
    /\ shown = "FileUpload"
    /\ \E files \in FileLists :
        /\ handleDrop(files)
        /\ lastEvent' = EventWith("drop", files)

\* Select File opens the picker, whose change event runs handleFileSelect.
PickFile ==
    /\ shown = "FileUpload"
    /\ Clickable(SelectFileButton)
    /\ \E files \in FileLists \cup {Null} :
        /\ handleFileSelect(files)
        /\ lastEvent' = EventWith("pick", files)

\* The checkbox is controlled: a click reports the opposite of what it shows.
Toggle ==
    /\ shown = "FileUpload"
    /\ Checkbox.present
    /\ handleToggle(~Checkbox.checked)
    /\ lastEvent' = Event("toggle")

Analyze ==
    /\ shown = "FileUpload"
    /\ Clickable(AnalyzeButton)
    /\ handleUpload
    /\ lastEvent' = Event("analyze")

Cancel ==
    /\ shown = "FileUpload"
    /\ Clickable(CancelButton)
    /\ handleCancel
    /\ lastEvent' = Event("cancel")

Reset ==
    /\ shown = "ProfileResults"
    /\ Clickable(report.resetButton)
    /\ handleReset
    /\ Commit(selectedFile, useLLM, isDragging)
    /\ lastEvent' = Event("reset")

RemoveAt(seq, i) == [j \in 1..(Len(seq) - 1) |-> IF j < i THEN seq[j] ELSE seq[j + 1]]

\* The transport settles the POST of a request in flight: a 2xx response
\* with a body, or a failure (no connection, or a status outside 2xx).  The
\* client sets no timeout, so nothing but the transport brings this about.
ResponseArrives ==
    /\ \E i \in 1..Len(inflight) :
        /\ inflight[i].response = Undefined
        /\ \E r \in Outcomes(inflight[i].request) :
               inflight' = [inflight EXCEPT ![i].response = r]
    /\ UNCHANGED <<profileResult, mutation, shown, selectedFile, useLLM,
                   isDragging, fileInfo, report>>
    /\ lastEvent' = Event("response")

\* Variant: onSuccess stores a body only if its success field is true.
UploadSucceedsValidates ==
    /\ \E i \in 1..Len(inflight) :
        /\ Resolves(inflight[i].response)
        /\ LET body == inflight[i].response.data
           IN  /\ inflight' = RemoveAt(inflight, i)
               /\ profileResult' = IF body.success THEN body ELSE profileResult
               /\ mutation' = IF inflight[i].observed
                              THEN [status |-> "success", error |-> Null, data |-> body]
                              ELSE mutation
    /\ Commit(selectedFile, useLLM, isDragging)
    /\ lastEvent' = Event("success")

\* After a 2xx response uploadAndProfile returns response.data, onSuccess
\* stores it, and the observer, if it still follows this mutation, reports
\* success.
UploadSucceeds ==
    /\ \E i \in 1..Len(inflight) :
        /\ Resolves(inflight[i].response)
        /\ LET body == inflight[i].response.data   \* return response.data
           IN  /\ inflight' = RemoveAt(inflight, i)
               /\ profileResult' = body
               /\ mutation' = IF inflight[i].observed
                              THEN [status |-> "success", error |-> Null, data |-> body]
                              ELSE mutation
    /\ Commit(selectedFile, useLLM, isDragging)
    /\ lastEvent' = Event("success")

\* Variant: a failed request is sent again instead of being reported.
UploadFailsAndRetries ==
    /\ \E i \in 1..Len(inflight) :
        /\ Rejects(inflight[i].response)
        /\ inflight' = [inflight EXCEPT ![i].response = Undefined]
        /\ UNCHANGED mutation
    /\ UNCHANGED profileResult
    /\ Commit(selectedFile, useLLM, isDragging)
    /\ lastEvent' = Event("failure")

\* After a network failure or a non-2xx response uploadAndProfile throws, and
\* the observer, if it still follows this mutation, reports the error.
UploadFails ==
    /\ \E i \in 1..Len(inflight) :
        /\ Rejects(inflight[i].response)
        /\ LET err == AxiosError(inflight[i].response)
           IN  /\ inflight' = RemoveAt(inflight, i)
               /\ mutation' = IF inflight[i].observed
                              THEN [status |-> "error", error |-> err, data |-> Undefined]
                              ELSE mutation
    /\ UNCHANGED profileResult
    /\ Commit(selectedFile, useLLM, isDragging)
    /\ lastEvent' = Event("failure")

Next ==
    \/ DragOver
    \/ DragLeave
    \/ Drop
    \/ PickFile
    \/ Toggle
    \/ Analyze
    \/ Cancel
    \/ Reset
    \/ ResponseArrives
    \/ UploadSucceeds
    \/ UploadFails

Spec == Init /\ [][Next]_vars

\* The promise callbacks of a settled request run as soon as the event loop
\* is free; neither the transport nor the user is under any obligation.
LiveSpec == Spec /\ WF_vars(UploadSucceeds) /\ WF_vars(UploadFails)

\* ----------------------------------------------------------- rendering

\* A response has been stored and ProfileResults has not rendered it yet.
RenderInit ==
    /\ profileResult \in RenderedResponses
    /\ mutation = [status |-> "success", error |-> Null, data |-> profileResult]
    /\ inflight = << >>
    /\ shown = "FileUpload"
    /\ selectedFile = CHOOSE f \in Files : f.name = profileResult.file_name
    /\ useLLM = TRUE
    /\ isDragging = FALSE
    /\ fileInfo = FileInfoBox(selectedFile)
    /\ report = Undefined
    /\ lastEvent = Event("success")

RenderResults ==
    /\ report = Undefined
    /\ UNCHANGED <<profileResult, mutation, inflight>>
    /\ Commit(selectedFile, useLLM, isDragging)
    /\ lastEvent' = Event("render")

RenderNext == RenderResults

RenderSpec == RenderInit /\ [][RenderNext]_vars

\* ---------------------------------------------------------- properties

\* The file and the flag a request in flight carries.
RequestFile(r) == FormGet(r.request.data, "file")
RequestFlag(r) == FormGet(r.request.data, "use_llm")

\* C1: at most one upload request is in flight in every reachable state, and
\* while isLoading is true a click on Analyze cannot start another one.
C1_SingleRequestInFlight ==
    /\ Len(inflight) <= 1
    /\ isLoading => ~ENABLED Analyze

\* C1 witness: a request is in flight while the Analyze button is on the page,
\* after the user dropped files onto the widget.
C1_Witness ==
    /\ Len(inflight) = 1
    /\ isLoading
    /\ AnalyzeButton.present
    /\ lastEvent.name = "drop"

\* C2: while the Upload Widget is shown, Analyze can fire if and only if a
\* file is selected and no request is in flight; when it fires, exactly one
\* request starts, carrying the selected file and the current useLLM flag.
C2_AnalyzeEnabledIff ==
    /\ [](shown = "FileUpload" =>
            ((ENABLED Analyze) <=> (selectedFile \in Files /\ inflight = << >>)))
    /\ [][lastEvent'.name = "analyze" =>
            /\ Len(inflight') = Len(inflight) + 1
            /\ RequestFile(inflight'[Len(inflight')]) = selectedFile
            /\ RequestFlag(inflight'[Len(inflight')]) = Str(BoolToString(useLLM))
            /\ inflight'[Len(inflight')].request.method = "POST"]_vars

\* C2 witness: Analyze has fired with the AI-insights flag switched off.
C2_Witness ==
    /\ lastEvent.name = "analyze"
    /\ Len(inflight) = 1
    /\ useLLM = FALSE
    /\ RequestFlag(inflight[1]) = Str("false")

\* C3: exactly one widget is shown, the Upload Widget iff no result is held
\* and the Results Widget iff one is; the result goes from none to a value
\* only when an upload request completes successfully, and back to none only
\* on Reset or at the start of a new upload.
C3_OneWidgetByResult ==
    /\ [](/\ shown \in {"FileUpload", "ProfileResults"}
          /\ (shown = "FileUpload") <=> (profileResult = Null)
          /\ (shown = "ProfileResults") <=> (profileResult # Null)
          /\ (report # Undefined) <=> (profileResult # Null))
    /\ [][/\ (profileResult = Null /\ profileResult' # Null) =>
                /\ lastEvent'.name = "success"
                /\ Len(inflight') = Len(inflight) - 1
                /\ \E i \in 1..Len(inflight) :
                       profileResult' \in UploadResponses(inflight[i].request)
          /\ (profileResult # Null /\ profileResult' = Null) =>
                lastEvent'.name \in {"reset", "analyze"}]_vars

\* C3 witness: a response whose success field is false is held and shown.
C3_Witness ==
    /\ shown = "ProfileResults"
    /\ profileResult # Null
    /\ ~profileResult.success
    /\ lastEvent.name = "success"

\* C4: right after Reset the container is back at the initial Upload Widget
\* view: no result, no selected file, useLLM true, isDragging false, no
\* error block and no request in flight.
C4_ResetRestoresInitialView ==
    lastEvent.name = "reset" =>
        /\ shown = "FileUpload"
        /\ profileResult = Null
        /\ report = Undefined
        /\ selectedFile = Null
        /\ useLLM = TRUE
        /\ isDragging = FALSE
        /\ ~ErrorBlock.present
        /\ ~isLoading
        /\ inflight = << >>
        /\ mutation = IdleMutation

\* C4 witness: Reset has fired (which it can only from a shown result).
C4_Witness == lastEvent.name = "reset" /\ shown = "FileUpload"

\* C5: when an upload request fails, the error block shows the failure's one
\* message, no result is held, loading is false again, and another attempt can
\* start: as long as the error stands, Analyze is enabled if a file is
\* selected, and a file can be picked if none is.
C5_FailureSurfacedAndRetryable ==
    /\ lastEvent.name = "failure" =>
        /\ mutation.status = "error"
        /\ ENABLED Analyze
    /\ mutation.status = "error" =>
        /\ shown = "FileUpload"
        /\ ErrorBlock.present
        /\ \E err \in Errors : ErrorBlock.text = err.message.val
        /\ profileResult = Null
        /\ ~isLoading
        /\ inflight = << >>
        /\ Truthy(selectedFile) => ENABLED Analyze
        /\ ~Truthy(selectedFile) => ENABLED PickFile

\* C5 witness: a request has just failed with a non-2xx status.
C5_Witness ==
    /\ lastEvent.name = "failure"
    /\ ErrorBlock.present
    /\ ErrorBlock.text = "Request failed with status code 500"

\* C6: while a request is in flight the Upload Widget shows no error block;
\* a shown error goes away only when Analyze is confirmed, and no drag, drop,
\* file pick, toggle or Cancel changes it.
C6_ErrorClearsOnNewAttempt ==
    /\ [](isLoading => ~ErrorBlock.present)
    /\ [][/\ lastEvent'.name = "analyze" => ~ErrorBlock.present'
          /\ (ErrorBlock.present /\ ~ErrorBlock.present') => lastEvent'.name = "analyze"
          /\ lastEvent'.name \in {"dragover", "dragleave", "drop", "pick", "toggle", "cancel"}
                => ErrorBlock' = ErrorBlock]_vars

\* C6 witness: the error of a failed upload is still shown after a toggle,
\* with Analyze ready to start the next attempt.
C6_Witness ==
    /\ ErrorBlock.present
    /\ lastEvent.name = "toggle"
    /\ Clickable(AnalyzeButton)

\* C7: a drop or a pick of a list of N >= 1 files sets selectedFile to the
\* first file of the list; an empty list (or, for a pick, no list) leaves
\* selectedFile as it was; a drop always clears isDragging.
C7_FirstFileOnly ==
    [][/\ lastEvent'.name = "drop" =>
            /\ isDragging' = FALSE
            /\ selectedFile' = IF Len(lastEvent'.files.items) >= 1
                               THEN lastEvent'.files.items[1]
                               ELSE selectedFile
       /\ lastEvent'.name = "pick" =>
            /\ isDragging' = isDragging
            /\ selectedFile' = IF lastEvent'.files # Null
                                  /\ Len(lastEvent'.files.items) >= 1
                               THEN lastEvent'.files.items[1]
                               ELSE selectedFile]_vars

\* C7 witness: two different files were dropped and the first is selected.
C7_Witness ==
    /\ lastEvent.name = "drop"
    /\ Len(lastEvent.files.items) = 2
    /\ lastEvent.files.items[1] # lastEvent.files.items[2]
    /\ selectedFile = lastEvent.files.items[1]

\* A field of a document is present when it is neither undefined nor null.
Present(v) == v # Undefined /\ v # Null

\* What JavaScript prints for the numbers of Columns: (0).toFixed(2),
\* (2.625).toFixed(2), (-0.125).toFixed(2); (1.5).toFixed(0), (7.5).toFixed(0).
MeanText(v) ==
    CASE v = Num(0) -> "μ: 0.00"
      [] v = Num(21) -> "μ: 2.63"
      [] v = Num(-1) -> "μ: -0.13"
AvgLengthText(v) ==
    CASE v = Num(12) -> "avg len: 2"
      [] v = Num(60) -> "avg len: 8"

\* C8 as stated: the stats cell of every column shows exactly one of the mean
\* (two decimals) when mean is present, else the average length (zero
\* decimals) when avg_length is present, else nothing; with both present
\* only the mean is shown.
C8_StatsCellMeanHasPriority ==
    report # Undefined =>
        \A i \in 1..Len(profileResult.columns) :
            LET col == profileResult.columns[i]
                cell == report.columns[i].stats
            IN  cell = IF Present(col.mean) THEN << MeanText(col.mean) >>
                       ELSE IF Present(col.avg_length)
                            THEN << AvgLengthText(col.avg_length) >>
                            ELSE << >>

\* C8 as amended: the stats cell of every column shows the mean (two
\* decimals) when mean is present and the average length (zero decimals) when
\* avg_length is present, each whether or not the other is; with both present
\* both are shown, the mean first; with neither the cell is empty.
C8_StatsCellShowsEachPresent ==
    report # Undefined =>
        /\ Len(report.columns) = Len(profileResult.columns)
        /\ \A i \in 1..Len(profileResult.columns) :
            LET col == profileResult.columns[i]
                cell == report.columns[i].stats
            IN  cell = (IF Present(col.mean) THEN << MeanText(col.mean) >> ELSE << >>)
                       \o (IF Present(col.avg_length)
                           THEN << AvgLengthText(col.avg_length) >>
                           ELSE << >>)

\* C8 witness: a column with a mean of 0 and an average length has been
\* rendered with both values in its cell.
C8_Witness ==
    /\ report # Undefined
    /\ \E i \in 1..Len(profileResult.columns) :
        /\ profileResult.columns[i].mean = Num(0)
        /\ Present(profileResult.columns[i].avg_length)
        /\ Len(report.columns[i].stats) = 2

\* C9: the AI-insights panel is absent iff llm_insights is undefined or null;
\* a present panel always shows the insight text; its model/tokens line is
\* omitted when model_used is undefined (or null, or the empty string) and
\* shown, naming the model, whenever model_used is a non-empty string.
C9_InsightsPanel ==
    report # Undefined =>
        LET li == profileResult.llm_insights
            panel == report.insights
        IN  /\ ~panel.present <=> ~Present(li)
            /\ panel.present =>
                /\ panel.text = li.insights
                /\ ~Present(li.model_used) => ~panel.modelLine.present
                /\ li.model_used = Str("") => ~panel.modelLine.present
                /\ (Present(li.model_used) /\ li.model_used # Str("")) =>
                      /\ panel.modelLine.present
                      /\ panel.modelLine.model = li.model_used.val
                      /\ panel.modelLine.tokens =
                            IF li.tokens_used = Num(8 * 1234) THEN "1,234" ELSE ""

\* C9 witness: insights without model_used were rendered: text, no model line.
C9_Witness ==
    /\ report # Undefined
    /\ Present(profileResult.llm_insights)
    /\ profileResult.llm_insights.model_used = Undefined
    /\ report.insights.present
    /\ report.insights.text = "Looks clean."
    /\ ~report.insights.modelLine.present

\* C10: the quality-issues panel is absent iff quality_issues is empty; a
\* present panel has one card per issue, the i-th card for the i-th issue
\* received, whatever the severities.
C10_QualityIssuesPanel ==
    report # Undefined =>
        LET issues == profileResult.quality_issues
            panel == report.qualityIssues
        IN  /\ ~panel.present <=> issues = << >>
            /\ panel.present =>
                /\ panel.count = Len(issues)
                /\ Len(panel.cards) = Len(issues)
                /\ \A i \in 1..Len(issues) :
                    /\ panel.cards[i].description = issues[i].description
                    /\ panel.cards[i].recommendation = issues[i].recommendation
                    /\ panel.cards[i].className = getSeverityColor(issues[i].severity)

\* C10 witness: an issue of severity low received before one of severity
\* high, rendered in that order.
C10_Witness ==
    /\ report # Undefined
    /\ Len(profileResult.quality_issues) = 2
    /\ profileResult.quality_issues[1].severity = "low"
    /\ profileResult.quality_issues[2].severity = "high"
    /\ report.qualityIssues.present
    /\ report.qualityIssues.cards[1].description = "issue of severity low"

\* The colour family a card's class names belong to.
ColourOf(className) ==
    CASE className = "bg-red-100 text-red-800 border-red-200" -> "red"
      [] className = "bg-yellow-100 text-yellow-800 border-yellow-200" -> "yellow"
      [] className = "bg-blue-100 text-blue-800 border-blue-200" -> "blue"
      [] className = "bg-gray-100 text-gray-800 border-gray-200" -> "gray"

\* C11: every issue gets a card (no severity makes rendering fail), and the
\* card's colour depends on the severity string alone: red for "high", yellow
\* for "medium", blue for "low", gray for every other string, "critical" and
\* "HIGH" among them.
C11_SeverityColour ==
    report # Undefined =>
        LET issues == profileResult.quality_issues
        IN  \A i \in 1..Len(issues) :
                /\ report.qualityIssues.present
                /\ ColourOf(report.qualityIssues.cards[i].className) =
                      IF issues[i].severity = "high" THEN "red"
                      ELSE IF issues[i].severity = "medium" THEN "yellow"
                      ELSE IF issues[i].severity = "low" THEN "blue"
                      ELSE "gray"

\* C11 witness: issues of severity "HIGH" and "critical" were rendered, both
\* on gray cards.
C11_Witness ==
    /\ report # Undefined
    /\ Len(profileResult.quality_issues) = 2
    /\ profileResult.quality_issues[1].severity = "HIGH"
    /\ profileResult.quality_issues[2].severity = "critical"
    /\ ColourOf(report.qualityIssues.cards[1].className) = "gray"
    /\ ColourOf(report.qualityIssues.cards[2].className) = "gray"

\* ---------------------------------------------------------- file sizes

\* A file has been selected and FileUpload has not rendered its box yet.
FormatInit ==
    /\ profileResult = Null
    /\ mutation = IdleMutation
    /\ inflight = << >>
    /\ shown = "FileUpload"
    /\ selectedFile \in SizedFiles
    /\ useLLM = TRUE
    /\ isDragging = FALSE
    /\ fileInfo = Undefined
    /\ report = Undefined
    /\ lastEvent = EventWith("drop", [tag |-> "FileList", items |-> <<selectedFile>>])

RenderFileInfo ==
    /\ fileInfo = Undefined
    /\ UNCHANGED <<profileResult, mutation, inflight>>
    /\ Commit(selectedFile, useLLM, isDragging)
    /\ lastEvent' = Event("render")

FormatNext == RenderFileInfo

FormatSpec == FormatInit /\ [][FormatNext]_vars

\* The one-decimal renderings of bytes/unit: the tenths n nearest to it
\* (either neighbour when it lies exactly between two).
OneDecimal(bytes, unit) ==
    { ToString(n \div 10) \o "." \o ToString(n % 10) :
        n \in { k \in ((10 * bytes) \div unit)..((10 * bytes) \div unit + 1) :
                  /\ 2 * (10 * bytes - unit * k) <= unit
                  /\ 2 * (unit * k - 10 * bytes) <= unit } }

\* C12: formatFileSize gives "<n> B" below 1024 bytes, bytes/1024 with one
\* decimal and " KB" from 1024 up to 1,048,575 bytes, and bytes/1,048,576
\* with one decimal and " MB" from there on; 0 gives "0 B", 1536 gives
\* "1.5 KB" and 1572864 gives "1.5 MB".
C12_FormatFileSize ==
    fileInfo # Undefined =>
        LET bytes == selectedFile.size
            text == fileInfo.size
        IN  /\ bytes < 1024 => text = ToString(bytes) \o " B"
            /\ (1024 <= bytes /\ bytes < 1048576) =>
                  text \in { t \o " KB" : t \in OneDecimal(bytes, 1024) }
            /\ bytes >= 1048576 =>
                  text \in { t \o " MB" : t \in OneDecimal(bytes, 1048576) }
            /\ bytes = 0 => text = "0 B"
            /\ bytes = 1536 => text = "1.5 KB"
            /\ bytes = 1572864 => text = "1.5 MB"

\* C12 witness: the box of a file of 1024 bytes has been rendered.
C12_Witness ==
    /\ fileInfo # Undefined
    /\ selectedFile.size = 1024
    /\ fileInfo.size = "1.0 KB"
    /\ lastEvent.name = "render"

\* C13: an upload request never hangs: once loading is true it eventually is
\* false again, with a result stored or an error surfaced, even if the server
\* never answers.
C13_NoRequestHangs ==
    isLoading ~> (~isLoading /\ (profileResult # Null \/ ErrorBlock.present))

\* --------------------------------------------------------- API client

\* The arguments uploadAndProfile is called with: useLLM given or left to
\* its default, description left out, empty or a text.
ApiFlags == {Undefined, Bool(TRUE), Bool(FALSE)}
ApiDescriptions == {Undefined, Str(""), Str("Q3 sales")}

\* One call of uploadAndProfile on its own.  The promise it returns is kept
\* in mutation: pending, then fulfilled with data or rejected with error.
ApiInit == Init

ApiCall ==
    /\ inflight = << >>
    /\ mutation.status = "idle"
    /\ \E file \in Files, llm \in ApiFlags, description \in ApiDescriptions :
        /\ inflight' = << [request |-> uploadAndProfile(file, llm, description),
                           observed |-> TRUE,
                           response |-> Undefined] >>
        /\ lastEvent' = [name |-> "call", file |-> file, useLLM |-> llm,
                         description |-> description]
    /\ mutation' = [status |-> "pending", error |-> Null, data |-> Undefined]
    /\ UNCHANGED <<profileResult, shown, selectedFile, useLLM, isDragging,
                   fileInfo, report>>

\* return response.data
ApiReturns ==
    /\ inflight # << >>
    /\ Resolves(inflight[1].response)
    /\ mutation' = [status |-> "success", error |-> Null,
                    data |-> inflight[1].response.data]
    /\ inflight' = << >>
    /\ lastEvent' = Event("return")
    /\ UNCHANGED <<profileResult, shown, selectedFile, useLLM, isDragging,
                   fileInfo, report>>

\* the rejection of api.post passes through the await
ApiThrows ==
    /\ inflight # << >>
    /\ Rejects(inflight[1].response)
    /\ mutation' = [status |-> "error", error |-> AxiosError(inflight[1].response),
                    data |-> Undefined]
    /\ inflight' = << >>
    /\ lastEvent' = Event("throw")
    /\ UNCHANGED <<profileResult, shown, selectedFile, useLLM, isDragging,
                   fileInfo, report>>

ApiNext ==
    \/ ApiCall
    \/ ResponseArrives
    \/ ApiReturns
    \/ ApiThrows

ApiSpec == ApiInit /\ [][ApiNext]_vars

FieldCount(formData, name) ==
    Cardinality({ i \in 1..Len(formData) : formData[i][1] = name })

\* What a call puts on the wire, where `provided` says whether the call
\* counts as having given a description.
ApiCallStep(provided) ==
    lastEvent'.name = "call" =>
        LET args == lastEvent'
            req == inflight'[Len(inflight')].request
        IN  /\ Len(inflight') = Len(inflight) + 1
            /\ req.method = "POST"
            /\ FieldCount(req.data, "file") = 1
            /\ FormGet(req.data, "file") = args.file
            /\ FieldCount(req.data, "use_llm") = 1
            /\ FormGet(req.data, "use_llm") =
                  (IF args.useLLM = Bool(FALSE) THEN Str("false") ELSE Str("true"))
            /\ FieldCount(req.data, "description") = (IF provided THEN 1 ELSE 0)
            /\ provided => FormGet(req.data, "description") = args.description
            /\ Len(req.data) = 2 + (IF provided THEN 1 ELSE 0)

\* How a call ends: with the response's body on a 2xx status, with an error
\* and no result on every other outcome, and never with another request.
ApiSettleStep ==
    /\ Len(inflight') > Len(inflight) => lastEvent'.name = "call"
    /\ lastEvent'.name = "return" =>
          /\ inflight[1].response.tag = "response"
          /\ inflight[1].response.status \in 200..299
          /\ mutation'.data = inflight[1].response.data
          /\ mutation'.error = Null
    /\ lastEvent'.name = "throw" =>
          /\ inflight[1].response.tag = "failure"
                \/ inflight[1].response.status \notin 200..299
          /\ mutation'.data = Undefined
          /\ mutation'.error \in Errors

ApiSettled ==
    /\ Len(inflight) <= 1
    /\ \A i \in 1..Len(inflight) :
          LET r == inflight[i].response
          IN  /\ (r.tag = "response" /\ r.status = 200) =>
                    (ENABLED ApiReturns) /\ ~(ENABLED ApiThrows)
              /\ (r.tag = "failure" \/ (r.tag = "response" /\ r.status = 500)) =>
                    (ENABLED ApiThrows) /\ ~(ENABLED ApiReturns)
              /\ r = Undefined => ~(ENABLED ApiReturns) /\ ~(ENABLED ApiThrows)

\* C14 as stated: uploadAndProfile issues exactly one POST with field 'file'
\* the given file, 'use_llm' the string of useLLM, and 'description' present
\* if and only if a description argument was given; it returns the response
\* body on a 2xx status and fails on every other outcome.
C14_DescriptionIffGiven ==
    /\ [](ApiSettled)
    /\ [][ApiCallStep(lastEvent'.description # Undefined) /\ ApiSettleStep]_vars

\* C14: as above, with 'description' present if and only if the description
\* given is a non-empty string (an empty one is left out of the body).
C14_UploadAndProfile ==
    /\ [](ApiSettled)
    /\ [][ApiCallStep(Truthy(lastEvent'.description)) /\ ApiSettleStep]_vars

\* C14 witness: a call that left useLLM to its default and gave the empty
\* string as description has put its request on the wire.
C14_Witness ==
    /\ lastEvent.name = "call"
    /\ lastEvent.description = Str("")
    /\ lastEvent.useLLM = Undefined
    /\ Len(inflight) = 1
    /\ FieldCount(inflight[1].request.data, "description") = 0
    /\ FormGet(inflight[1].request.data, "use_llm") = Str("true")

\* C15: Cancel clears selectedFile and changes nothing else (useLLM,
\* isDragging, the held result and the error stay as they are); its handler
\* changes nothing when no file is selected, and it cannot fire while a
\* request is in flight.
C15_CancelClearsOnlyFile ==
    /\ [](/\ isLoading => ~(ENABLED Cancel)
          /\ inflight # << >> => ~(ENABLED Cancel)
          /\ ~Truthy(selectedFile) =>
                /\ ~(ENABLED Cancel)
                /\ ~(ENABLED (handleCancel /\ lastEvent' = lastEvent /\ vars' # vars)))
    /\ [][lastEvent'.name = "cancel" =>
            /\ Truthy(selectedFile)
            /\ selectedFile' = Null
            /\ fileInfo' = Undefined
            /\ UNCHANGED <<useLLM, isDragging, profileResult, mutation, inflight,
                           shown, report>>
            /\ ErrorBlock' = ErrorBlock]_vars

\* C15 witness: Cancel has fired with the flag off, a drag under way and the
\* error of a failed upload on the page, all of which are still there.
C15_Witness ==
    /\ lastEvent.name = "cancel"
    /\ selectedFile = Null
    /\ useLLM = FALSE
    /\ isDragging
    /\ ErrorBlock.present

\* C16: the success field is not validated: the body of every 2xx upload
\* response is stored as the held result and rendered by the Results Widget,
\* footer included, also when its success field is false.
C16_SuccessFieldNotValidated ==
    /\ [](profileResult # Null =>
            /\ shown = "ProfileResults"
            /\ report = ProfileResultsRender(profileResult)
            /\ report.file_name = profileResult.file_name
            /\ report.footer = "Analysis Complete")
    /\ [](\A i \in 1..Len(inflight) :
            (inflight[i].response.tag = "response" /\ inflight[i].response.status = 200)
                => ENABLED (UploadSucceeds /\ profileResult' = inflight[i].response.data))
    /\ [][lastEvent'.name = "success" =>
            \E i \in 1..Len(inflight) :
                /\ inflight[i].response.tag = "response"
                /\ inflight[i].response.status \in 200..299
                /\ profileResult' = inflight[i].response.data
                /\ shown' = "ProfileResults"
                /\ report'.footer = "Analysis Complete"]_vars

\* C16 witness: the body of a 2xx response with success = false has just been
\* stored, and the Results Widget shows it with its footer.
C16_Witness ==
    /\ lastEvent.name = "success"
    /\ profileResult # Null
    /\ ~profileResult.success
    /\ report # Undefined
    /\ report.footer = "Analysis Complete"
    /\ report.file_name = "orders.json"

\* C17: a held result never coexists with a request in flight or with a
\* surfaced error; so Reset can fire only when no request is in flight, and
\* after Reset no late response is left that could store a result again; a
\* held result is never replaced by another, only cleared by Reset.
C17_ResultExcludesInflightAndError ==
    /\ [](profileResult # Null =>
            /\ inflight = << >>
            /\ ~isLoading
            /\ mutation.error = Null
            /\ errorProp = Undefined
            /\ ~(ENABLED UploadSucceeds)
            /\ ~(ENABLED ResponseArrives))
    /\ [](ENABLED Reset => inflight = << >>)
    /\ [](lastEvent.name = "reset" =>
            /\ inflight = << >>
            /\ ~(ENABLED UploadSucceeds)
            /\ ~(ENABLED ResponseArrives))
    /\ [][/\ lastEvent'.name = "reset" => inflight = << >> /\ inflight' = << >>
          /\ (profileResult # Null /\ profileResult' # profileResult) =>
                lastEvent'.name = "reset" /\ profileResult' = Null]_vars

\* C17 witness: a result for events.parquet, without insights, is held and
\* shown with its Reset button ready.
C17_Witness ==
    /\ profileResult # Null
    /\ shown = "ProfileResults"
    /\ ENABLED Reset
    /\ mutation.status = "success"
    /\ profileResult.file_name = "events.parquet"
    /\ profileResult.llm_insights = Null

\* C18: a file dropped or the flag toggled while a request is in flight
\* changes selectedFile or useLLM, starts no second request and leaves the
\* request in flight as it is: a request carries the file and the flag
\* selected when Analyze was confirmed until it settles, and the result
\* stored on success is the body answering that request.
C18_RequestKeepsSubmittedSelection ==
    [][/\ lastEvent'.name \in {"dragover", "dragleave", "drop", "pick", "toggle", "cancel"}
            => inflight' = inflight /\ isLoading' = isLoading
       /\ (lastEvent'.name = "drop" /\ Len(lastEvent'.files.items) > 0)
            => selectedFile' = lastEvent'.files.items[1]
       /\ lastEvent'.name = "toggle" => useLLM' = ~useLLM
       /\ lastEvent'.name = "analyze" =>
            /\ Len(inflight') = 1
            /\ RequestFile(inflight'[1]) = selectedFile
            /\ RequestFlag(inflight'[1]) = Str(BoolToString(useLLM))
       /\ lastEvent'.name \notin {"success", "failure"} =>
            \A i \in 1..Len(inflight) :
                /\ i <= Len(inflight')
                /\ inflight'[i].request = inflight[i].request
       /\ lastEvent'.name = "success" =>
            /\ Len(inflight) = 1
            /\ profileResult' = inflight[1].response.data
            /\ profileResult'.file_name = RequestFile(inflight[1]).name]_vars

\* C18 witness: while the request for one file is in flight with the flag on,
\* another file has been dropped and the flag has been switched off.
C18_Witness ==
    /\ isLoading
    /\ Len(inflight) = 1
    /\ lastEvent.name = "drop"
    /\ Truthy(selectedFile)
    /\ selectedFile # RequestFile(inflight[1])
    /\ useLLM = FALSE
    /\ RequestFlag(inflight[1]) = Str("true")

=============================================================================
